---- MODULE Spec2Model ----
(***************************************************************************)
(* Model of Heimer's LayoutOptimizer (src/src/layout_optimizer.cpp/.hpp):  *)
(* initialize() builds a lattice of Cells, optimize() anneals it with      *)
(* pairwise swaps, extract() writes node locations.                        *)
(*                                                                         *)
(* Number representation.  Rect fields are C++ ints and are held as        *)
(* integers.  The running cost is a double that only ever holds sums of    *)
(* int distances, so it is held as an integer; so are maxWidth and         *)
(* maxHeight of extract().  Doubles that can be fractional (minEdgeLength, *)
(* node locations) are held in HALVES: the integer v stands for the double *)
(* v/2.  The temperature t is held in units of 1/TUnit.  aspectRatio is    *)
(* the rational num/den.                                                   *)
(***************************************************************************)
EXTENDS Integers, Sequences, FiniteSets, TLC

\* Constants::Node::MIN_WIDTH / MIN_HEIGHT (constants.hpp; C++ ints).
MIN_WIDTH == 200
MIN_HEIGHT == 75

\* proposed moves per active cell in one batch (all.size() * 100)
MovesPerCell == 100
\* the inner loop runs while (stuck < 5)
StuckLimit == 5
\* std::exp(-x) is 0 in IEEE double for x > 745.13.., positive for x <= 745
ExpUnderflow == 745

\* ---------------------------------------------------------------- bounds
\* extract() may be called again after the first call, up to this many calls
MaxExtract == 2
\* the for loop of a batch is followed for at most this many proposed moves
\* (FullBatchSpec follows it to its end)
MaxBatchMoves == 2

\* ---------------------------------------------------------------- helpers
Abs(x) == IF x < 0 THEN 0 - x ELSE x
Max(a, b) == IF a < b THEN b ELSE a

RECURSIVE SumSeq(_)
SumSeq(s) == IF s = <<>> THEN 0 ELSE Head(s) + SumSeq(Tail(s))

\* ------------------------------------------------------------ temperature
TUnit == 20 * 4096
\* double t = 200
StartT == 200
InitialT == StartT * TUnit
\* while (t > 0.05)
MinT == TUnit \div 20
\* cooling with the factor 0.25
CoolTQuarter(temp) == temp \div 4
\* t *= 0.5   (exact: InitialT = 125 * 2^17)
CoolT(temp) == temp \div 2

\* ----------------------------------------------------------------- inputs
\* Node sizes (width, height) the graph may hold.  Node's constructor gives
\* MIN_WIDTH x MIN_HEIGHT; the serializer reads any size from a file.
SmallNode == <<40, 40>>
DefaultNode == <<MIN_WIDTH, MIN_HEIGHT>>

\* Node lists: the node at position k has index k.
NodeLists == { <<>>, <<SmallNode>>, <<DefaultNode>>, <<SmallNode, SmallNode>>,
               <<SmallNode, DefaultNode>>, <<DefaultNode, DefaultNode>> }

\* Edge lists (source index, target index): none, one edge, and a self-loop
\* with a pair of opposite edges.
EdgeLists == { <<>>, << <<1, 2>> >>, << <<2, 1>>, <<1, 2>>, <<1, 1>> >> }

Graphs == { g \in [nodes : NodeLists, edges : EdgeLists] :
              \A k \in 1..Len(g.edges) :
                 g.edges[k][1] <= Len(g.nodes) /\ g.edges[k][2] <= Len(g.nodes) }

\* Arguments of initialize(): aspectRatio as <<num, den>>, minEdgeLength in
\* halves (20 is 10.0, 1 is 0.5)
InitializeArgs == { [aspectRatio |-> <<1, 1>>, minEdgeLength |-> 20],
                    [aspectRatio |-> <<9, 1>>, minEdgeLength |-> 20],
                    [aspectRatio |-> <<9, 1>>, minEdgeLength |-> 1] }

\* ------------------------------------------------------------------ state
VARIABLES
    pc,            \* which call of the public interface has run
    graph,         \* m_mindMapData->graph(): nodes and edges
    location,      \* NodeBase::m_location of each node, in halves
    m_layout,      \* Layout: minEdgeLength, all, rows, and the Cell objects
    cost,          \* optimize(): running cost
    sliceCost,     \* optimize(): cost at batch start
    t,             \* optimize(): temperature
    stuck,         \* optimize(): stuck counter
    i,             \* optimize(): index of the for loop
    failure,       \* how initialize() ended when it did not return
    extracts       \* number of extract() calls made

vars == <<pc, graph, location, m_layout, cost, sliceCost, t, stuck, i, failure,
          extracts>>

\* ------------------------------------------------------------- structures
\* Rect(): x = y = w = h = 0
Rect0 == [x |-> 0, y |-> 0, w |-> 0, h |-> 0]

\* Cell(): no node (0), empty in/out, default rect and stash
Cell0 == [rect |-> Rect0, stash |-> Rect0, node |-> 0, in |-> <<>>, out |-> <<>>]

\* m_layout before initialize()
NoLayout == [minEdgeLength |-> 0, all |-> <<>>, rows |-> <<>>, cells |-> <<>>]

\* ------------------------------------------------------------- cost model
\* distance without std::abs
DistanceSigned(a, b) ==
    (a.rect.x + (a.rect.w \div 2) - b.rect.x - (b.rect.w \div 2))
  + (a.rect.y + (a.rect.h \div 2) - b.rect.y - (b.rect.h \div 2))

\* distance that leaves out dy
DistanceHorizontal(a, b) ==
    Abs(a.rect.x + (a.rect.w \div 2) - b.rect.x - (b.rect.w \div 2))

\* Cell::distance: all operands are ints, so w / 2 and h / 2 truncate
Distance(a, b) ==
    Abs(a.rect.x + (a.rect.w \div 2) - b.rect.x - (b.rect.w \div 2))
  + Abs(a.rect.y + (a.rect.h \div 2) - b.rect.y - (b.rect.h \div 2))

\* Cell::getConnectionCost of cell c over the list connections
GetConnectionCost(cells, c, connections) ==
    SumSeq([k \in 1..Len(connections) |-> Distance(cells[c], cells[connections[k]])])

\* getOutCost summing over both lists of the cell
GetOutCostBothLists(cells, c) ==
    GetConnectionCost(cells, c, cells[c].in) + GetConnectionCost(cells, c, cells[c].out)

GetOutCost(cells, c) == GetConnectionCost(cells, c, cells[c].out)

\* getCompoundCost summing over the out list only
GetCompoundCostOutOnly(cells, c) == GetConnectionCost(cells, c, cells[c].out)

\* Cell::getCompoundCost
GetCompoundCost(cells, c) ==
    GetConnectionCost(cells, c, cells[c].in) + GetConnectionCost(cells, c, cells[c].out)

\* calculateCost summing getCompoundCost: every edge is counted at both ends
CalculateCostCompound(L) ==
    SumSeq([k \in 1..Len(L.all) |-> GetCompoundCost(L.cells, L.all[k])])

\* LayoutOptimizer::calculateCost
CalculateCost(L) ==
    SumSeq([k \in 1..Len(L.all) |-> GetOutCost(L.cells, L.all[k])])

\* ------------------------------------------------------------ initialize()
\* area = sum of (width + minEdgeLength) * (height + minEdgeLength), in quarters
Area4(nodes, mel) ==
    SumSeq([k \in 1..Len(nodes) |-> (2 * nodes[k][1] + mel) * (2 * nodes[k][2] + mel)])

\* the largest k with k * k * b <= a: floor(sqrt(a / b))
RECURSIVE FloorSqrtFrom(_, _, _)
FloorSqrtFrom(a, b, k) ==
    IF (k + 1) * (k + 1) * b > a THEN k ELSE FloorSqrtFrom(a, b, k + 1)

\* rows = static_cast<size_t>(height / (MIN_HEIGHT + minEdgeLength)) + 1 with
\* height = sqrt(area / aspectRatio)
LatticeRows(nodes, ar, mel) ==
    FloorSqrtFrom(Area4(nodes, mel) * ar[2],
                  (2 * MIN_HEIGHT + mel) * (2 * MIN_HEIGHT + mel) * ar[1], 0) + 1

\* cols = static_cast<size_t>(width / (MIN_WIDTH + minEdgeLength)) + 1 with
\* width = area / height = sqrt(area * aspectRatio)
LatticeCols(nodes, ar, mel) ==
    FloorSqrtFrom(Area4(nodes, mel) * ar[1],
                  (2 * MIN_WIDTH + mel) * (2 * MIN_WIDTH + mel) * ar[2], 0) + 1

\* area = 0 makes height 0 and width = 0 / 0 = NaN; static_cast<size_t>(NaN)
\* is undefined: the build may produce any column count, or not return at all
MaxUBCols == 2
ColsOutcomes(nodes, ar, mel) ==
    IF Area4(nodes, mel) = 0 THEN 1..MaxUBCols ELSE { LatticeCols(nodes, ar, mel) }

\* the build loop handing out the nodes from the front of the list
NodesFront(n, c) == IF c <= n THEN c ELSE 0

\* the node the c-th Cell built takes from a list of n nodes: nodes.back(),
\* followed by pop_back(), while the list is not empty; 0 is no node
NodesBack(n, c) == IF c <= n THEN n + 1 - c ELSE 0

\* the rows x cols loop: cell number (j - 1) * cols + i is built for row j, slot i
\* (both counted from 1), takes nodes.back() while the list is not empty
BuildLattice(nodes, rows, cols, mel) ==
    LET n == Len(nodes)
        cellAt(j, s) == (j - 1) * cols + s
        used == IF n < rows * cols THEN n ELSE rows * cols
    IN [ minEdgeLength |-> mel,
         all   |-> [k \in 1..used |-> k],
         rows  |-> [j \in 1..rows |->
                      [ rect  |-> [x |-> 0, y |-> (j - 1) * MIN_HEIGHT, w |-> 0, h |-> 0],
                        cells |-> [s \in 1..cols |-> cellAt(j, s)] ]],
         cells |-> [c \in 1..(rows * cols) |->
                      LET j == ((c - 1) \div cols) + 1
                          s == ((c - 1) % cols) + 1
                      IN [ rect  |-> [x |-> 0 + (s - 1) * MIN_WIDTH,
                                      y |-> (j - 1) * MIN_HEIGHT,
                                      w |-> MIN_WIDTH, h |-> MIN_HEIGHT],
                           stash |-> Rect0,
                           node  |-> NodesBack(n, c),
                           in    |-> <<>>,
                           out   |-> <<>> ]] ]

\* nodesToCells[index]: the Cell recorded for the node, 0 (nullptr) when none was
NodesToCells(cells, index) ==
    IF \E c \in DOMAIN cells : cells[c].node = index
    THEN CHOOSE c \in DOMAIN cells : cells[c].node = index
    ELSE 0

\* whether the asserts on the endpoints of edge hold
EdgeResolves(cells, edge) ==
    NodesToCells(cells, edge[1]) # 0 /\ NodesToCells(cells, edge[2]) # 0

\* the "Setup connections" loop with the two push_back targets exchanged: the
\* target Cell is put on the source's in list and the source on the target's out
RECURSIVE SetupConnectionsReversed(_, _, _)
SetupConnectionsReversed(cells, edges, k) ==
    IF k > Len(edges) THEN [cells |-> cells, failedAt |-> 0]
    ELSE IF ~EdgeResolves(cells, edges[k]) THEN [cells |-> cells, failedAt |-> k]
    ELSE LET cell0 == NodesToCells(cells, edges[k][1])
             cell1 == NodesToCells(cells, edges[k][2])
             withIn  == [cells EXCEPT ![cell0].in = Append(@, cell1)]
             withOut == [withIn EXCEPT ![cell1].out = Append(@, cell0)]
         IN SetupConnectionsReversed(withOut, edges, k + 1)

\* the "Setup connections" loop from edge k on; stops at the first edge whose
\* assert fails.  Result: the cells and the number of that edge (0: none failed)
RECURSIVE SetupConnections(_, _, _)
SetupConnections(cells, edges, k) ==
    IF k > Len(edges) THEN [cells |-> cells, failedAt |-> 0]
    ELSE IF ~EdgeResolves(cells, edges[k]) THEN [cells |-> cells, failedAt |-> k]
    ELSE LET cell0 == NodesToCells(cells, edges[k][1])
             cell1 == NodesToCells(cells, edges[k][2])
             withOut == [cells EXCEPT ![cell0].out = Append(@, cell1)]
             withIn  == [withOut EXCEPT ![cell1].in = Append(@, cell0)]
         IN SetupConnections(withIn, edges, k + 1)

\* the failing edge in a build without the asserts (NDEBUG): when the source
\* Cell exists, cell0->out.push_back(cell1) has appended the null target (0)
\* before cell1->in dereferences it; when it does not, cell0->out dereferences
\* null at once
PushedBeforeDereference(cells, edge) ==
    LET cell0 == NodesToCells(cells, edge[1])
    IN IF cell0 # 0 THEN [cells EXCEPT ![cell0].out = Append(@, 0)] ELSE cells

\* initialize(aspectRatio, minEdgeLength) with the column count the build produced
InitializeResult(g, ar, mel, cols) ==
    LET built == BuildLattice(g.nodes, LatticeRows(g.nodes, ar, mel), cols, mel)
        conn  == SetupConnections(built.cells, g.edges, 1)
    IN [layout |-> [built EXCEPT !.cells = conn.cells], failedAt |-> conn.failedAt]

Init ==
    /\ pc = "constructed"
    /\ graph \in Graphs
    /\ location = [k \in 1..Len(graph.nodes) |-> <<0, 0>>]
    /\ m_layout = NoLayout
    /\ cost = 0
    /\ sliceCost = 0
    /\ t = 0
    /\ stuck = 0
    /\ i = 0
    /\ failure = "none"
    /\ extracts = 0

\* initialize() returns
InitializeReturnsFor(arguments) ==
    /\ pc = "constructed"
    /\ \E args \in arguments :
         \E cols \in ColsOutcomes(graph.nodes, args.aspectRatio, args.minEdgeLength) :
            LET r == InitializeResult(graph, args.aspectRatio, args.minEdgeLength, cols)
            IN /\ r.failedAt = 0
               /\ m_layout' = r.layout
    /\ pc' = "initialized"
    /\ UNCHANGED <<graph, location, cost, sliceCost, t, stuck, i, failure, extracts>>

InitializeReturns == InitializeReturnsFor(InitializeArgs)

\* initialize() does not return: an assert on an edge endpoint fails (with
\* NDEBUG the null Cell is dereferenced instead), or the undefined conversion of
\* NaN gave a column count the build cannot allocate
InitializeAbortsFor(arguments) ==
    /\ pc = "constructed"
    /\ \E args \in arguments :
         \E cols \in ColsOutcomes(graph.nodes, args.aspectRatio, args.minEdgeLength) :
            LET r == InitializeResult(graph, args.aspectRatio, args.minEdgeLength, cols)
            IN \/ /\ r.failedAt # 0
                  /\ \/ /\ failure' = "assert"
                        /\ m_layout' = r.layout
                     \/ /\ failure' = "null dereference"
                        /\ m_layout' = [r.layout EXCEPT !.cells =
                               PushedBeforeDereference(@, graph.edges[r.failedAt])]
               \/ /\ Area4(graph.nodes, args.minEdgeLength) = 0
                  /\ m_layout' = NoLayout
                  /\ failure' = "undefined conversion"
    /\ pc' = "aborted"
    /\ UNCHANGED <<graph, location, cost, sliceCost, t, stuck, i, extracts>>

InitializeAborts == InitializeAbortsFor(InitializeArgs)

\* -------------------------------------------------------------- optimize()
\* the (row, slot) places of the lattice, rows and slots counted from 1
Slots(L) ==
    UNION { { <<j, s>> : s \in DOMAIN L.rows[j].cells } : j \in DOMAIN L.rows }

\* Change: the two row/slot places exchanged and the two Cells involved
MakeChange(L, src, tgt) ==
    [ sourceRow  |-> src[1], sourceIndex |-> src[2],
      sourceCell |-> L.rows[src[1]].cells[src[2]],
      targetRow  |-> tgt[1], targetIndex |-> tgt[2],
      targetCell |-> L.rows[tgt[1]].cells[tgt[2]] ]

\* planChange() returning its first draw, without the loop that repeats the
\* draw while the two Cells are the same
PlanChangeFirstDraw(L) ==
    { MakeChange(L, src, tgt) : src \in Slots(L), tgt \in Slots(L) }

\* planChange(): every Change its random draws can return.  A row and a slot of
\* it are drawn for the source and for the target until the two Cells differ.
PlanChange(L) ==
    { ch \in { MakeChange(L, src, tgt) : src \in Slots(L), tgt \in Slots(L) } :
        ch.sourceCell # ch.targetCell }

\* Cell::pushRect: stash = rect
PushRect(cell) == [cell EXCEPT !.stash = cell.rect]

\* Cell::popRect: rect = stash
PopRect(cell) == [cell EXCEPT !.rect = cell.stash]

\* doChange that exchanges the nodes of the two Cells instead of their slots
DoChangeSwapNodes(L, ch) ==
    [L EXCEPT !.cells[ch.sourceCell].node = L.cells[ch.targetCell].node,
              !.cells[ch.targetCell].node = L.cells[ch.sourceCell].node]

\* doChange that pushes the source Cell onto the target row instead of storing
\* it at the target slot
DoChangePushBack(L, ch) ==
    LET rows1 == [L.rows EXCEPT ![ch.sourceRow].cells[ch.sourceIndex] = ch.targetCell]
        rows2 == [rows1 EXCEPT ![ch.targetRow].cells = Append(@, ch.sourceCell)]
    IN [L EXCEPT !.rows = rows2]

\* doChange that moves the two rects to the other slot's x but leaves rect.y
DoChangeKeepY(L, ch) ==
    LET rows1 == [L.rows EXCEPT ![ch.sourceRow].cells[ch.sourceIndex] = ch.targetCell]
        rows2 == [rows1 EXCEPT ![ch.targetRow].cells[ch.targetIndex] = ch.sourceCell]
        c1 == [L.cells EXCEPT ![ch.sourceCell] = PushRect(@)]
        c2 == [c1 EXCEPT ![ch.sourceCell].rect.x =
                            L.rows[ch.targetRow].rect.x + (ch.targetIndex - 1) * MIN_WIDTH]
        c3 == [c2 EXCEPT ![ch.targetCell] = PushRect(@)]
        c4 == [c3 EXCEPT ![ch.targetCell].rect.x =
                            L.rows[ch.sourceRow].rect.x + (ch.sourceIndex - 1) * MIN_WIDTH]
    IN [L EXCEPT !.rows = rows2, !.cells = c4]

\* doChange that also exchanges the two Cells in the active list
DoChangeSwapInAll(L, ch) ==
    LET rows1 == [L.rows EXCEPT ![ch.sourceRow].cells[ch.sourceIndex] = ch.targetCell]
        rows2 == [rows1 EXCEPT ![ch.targetRow].cells[ch.targetIndex] = ch.sourceCell]
        c1 == [L.cells EXCEPT ![ch.sourceCell] = PushRect(@)]
        c2 == [c1 EXCEPT ![ch.sourceCell].rect.x =
                            L.rows[ch.targetRow].rect.x + (ch.targetIndex - 1) * MIN_WIDTH,
                         ![ch.sourceCell].rect.y = L.rows[ch.targetRow].rect.y]
        c3 == [c2 EXCEPT ![ch.targetCell] = PushRect(@)]
        c4 == [c3 EXCEPT ![ch.targetCell].rect.x =
                            L.rows[ch.sourceRow].rect.x + (ch.sourceIndex - 1) * MIN_WIDTH,
                         ![ch.targetCell].rect.y = L.rows[ch.sourceRow].rect.y]
        all1 == [k \in DOMAIN L.all |->
                    IF L.all[k] = ch.sourceCell THEN ch.targetCell
                    ELSE IF L.all[k] = ch.targetCell THEN ch.sourceCell
                    ELSE L.all[k]]
    IN [L EXCEPT !.rows = rows2, !.cells = c4, !.all = all1]

\* doChange(change)
DoChange(L, ch) ==
    LET rows1 == [L.rows EXCEPT ![ch.sourceRow].cells[ch.sourceIndex] = ch.targetCell]
        rows2 == [rows1 EXCEPT ![ch.targetRow].cells[ch.targetIndex] = ch.sourceCell]
        c1 == [L.cells EXCEPT ![ch.sourceCell] = PushRect(@)]
        c2 == [c1 EXCEPT ![ch.sourceCell].rect.x =
                            L.rows[ch.targetRow].rect.x + (ch.targetIndex - 1) * MIN_WIDTH,
                         ![ch.sourceCell].rect.y = L.rows[ch.targetRow].rect.y]
        c3 == [c2 EXCEPT ![ch.targetCell] = PushRect(@)]
        c4 == [c3 EXCEPT ![ch.targetCell].rect.x =
                            L.rows[ch.sourceRow].rect.x + (ch.sourceIndex - 1) * MIN_WIDTH,
                         ![ch.targetCell].rect.y = L.rows[ch.sourceRow].rect.y]
    IN [L EXCEPT !.rows = rows2, !.cells = c4]

\* undoChange that restores the source Cell's rect only
UndoChangeSourceOnly(L, ch) ==
    LET rows1 == [L.rows EXCEPT ![ch.sourceRow].cells[ch.sourceIndex] = ch.sourceCell]
        rows2 == [rows1 EXCEPT ![ch.targetRow].cells[ch.targetIndex] = ch.targetCell]
        c1 == [L.cells EXCEPT ![ch.sourceCell] = PopRect(@)]
    IN [L EXCEPT !.rows = rows2, !.cells = c1]

\* undoChange that puts back the source slot only
UndoChangeSourceSlot(L, ch) ==
    LET rows1 == [L.rows EXCEPT ![ch.sourceRow].cells[ch.sourceIndex] = ch.sourceCell]
        c1 == [L.cells EXCEPT ![ch.sourceCell] = PopRect(@)]
        c2 == [c1 EXCEPT ![ch.targetCell] = PopRect(@)]
    IN [L EXCEPT !.rows = rows1, !.cells = c2]

\* undoChange(change)
UndoChange(L, ch) ==
    LET rows1 == [L.rows EXCEPT ![ch.sourceRow].cells[ch.sourceIndex] = ch.sourceCell]
        rows2 == [rows1 EXCEPT ![ch.targetRow].cells[ch.targetIndex] = ch.targetCell]
        c1 == [L.cells EXCEPT ![ch.sourceCell] = PopRect(@)]
        c2 == [c1 EXCEPT ![ch.targetCell] = PopRect(@)]
    IN [L EXCEPT !.rows = rows2, !.cells = c2]

\* newCost that adds the source Cell's compound cost only after doChange
NewCostSourceOnly(before, after, c, ch) ==
    c - GetCompoundCost(before.cells, ch.sourceCell)
      - GetCompoundCost(before.cells, ch.targetCell)
      + GetCompoundCost(after.cells, ch.sourceCell)

\* newCost of one proposed move: the compound costs of the two Cells are taken
\* off the running cost in the layout before doChange and added again in the
\* layout after it
NewCost(before, after, c, ch) ==
    c - GetCompoundCost(before.cells, ch.sourceCell)
      - GetCompoundCost(before.cells, ch.targetCell)
      + GetCompoundCost(after.cells, ch.sourceCell)
      + GetCompoundCost(after.cells, ch.targetCell)

\* r < std::exp(-delta / t) can be true for a draw r in [0, 1): the exponential
\* is positive (r may be 0) unless it underflows to 0, that is unless
\* delta / t > ExpUnderflow (InitialT \div temp is the exact power of two t
\* has been divided by)
CanAccept(delta, temp) == delta * (InitialT \div temp) <= ExpUnderflow * StartT

\* r < std::exp(-delta / t) can be false: for delta > 0 the exponential is
\* below 1 and r may be any value up to 1
CanReject(delta, temp) == delta > 0

\* gain < 0.1 for gain = (cost - sliceCost) / sliceCost as IEEE doubles: with
\* sliceCost = 0 the gain is NaN (cost = 0) or +infinity (cost > 0), and the
\* comparison is false
GainBelowThreshold(c, slice) ==
    IF slice = 0 THEN FALSE ELSE 10 * (c - slice) < slice

\* the stuck counter after a batch
StuckAfterBatch(s, c, slice) ==
    IF GainBelowThreshold(c, slice) THEN s + 1 ELSE 0

\* the bound of the for loop with the number of Cells of the lattice in place
\* of the number of active cells
ProposalsPerBatchAllCells(L) == Len(L.cells) * MovesPerCell

\* the bound of the for loop: m_layout->all.size() * 100 proposed moves
ProposalsPerBatch(L) == Len(L.all) * MovesPerCell

\* the number of proposed moves of a batch the model follows under Spec and
\* WideSpec: the first MaxBatchMoves of them
BatchSize(L) ==
    IF ProposalsPerBatch(L) < MaxBatchMoves
    THEN ProposalsPerBatch(L) ELSE MaxBatchMoves

\* optimize() with fewer than 2 active cells: returns at once
OptimizeReturnsEarly ==
    /\ pc = "initialized"
    /\ Len(m_layout.all) < 2
    /\ pc' = "optimized"
    /\ UNCHANGED <<graph, location, m_layout, cost, sliceCost, t, stuck, i, failure,
                   extracts>>

\* optimize() without the early return: the set-up runs for any number of
\* active cells
OptimizeStartsWithoutGuard ==
    /\ pc = "initialized"
    /\ cost' = CalculateCost(m_layout)
    /\ t' = InitialT
    /\ stuck' = 0
    /\ sliceCost' = cost'
    /\ i' = 0
    /\ pc' = "batch"
    /\ UNCHANGED <<graph, location, m_layout, failure, extracts>>

\* optimize() up to the first batch: cost = calculateCost(), t = 200, stuck = 0,
\* sliceCost = cost, i = 0
OptimizeStarts ==
    /\ pc = "initialized"
    /\ Len(m_layout.all) >= 2
    /\ cost' = CalculateCost(m_layout)
    /\ t' = InitialT
    /\ stuck' = 0
    /\ sliceCost' = cost'
    /\ i' = 0
    /\ pc' = "batch"
    /\ UNCHANGED <<graph, location, m_layout, failure, extracts>>

\* one iteration of the for loop (i < limit), for the Change ch that
\* planChange() returned, whose move is kept: delta <= 0, or the draw accepted
\* the worse layout
MoveAcceptedWithin(limit, ch) ==
    /\ pc = "batch"
    /\ i < limit
    /\ LET after == DoChange(m_layout, ch)
           newCost == NewCost(m_layout, after, cost, ch)
           delta == newCost - cost
       IN /\ delta <= 0 \/ CanAccept(delta, t)
          /\ cost' = newCost
          /\ m_layout' = after
    /\ i' = i + 1
    /\ UNCHANGED <<pc, graph, location, sliceCost, t, stuck, failure, extracts>>

MoveAccepted(ch) == MoveAcceptedWithin(BatchSize(m_layout), ch)

\* the for loop iteration undoing a move whatever its delta: the delta <= 0
\* branch is missing
MoveRevertedAnyDelta(ch) ==
    /\ pc = "batch"
    /\ i < BatchSize(m_layout)
    /\ m_layout' = UndoChange(DoChange(m_layout, ch), ch)
    /\ i' = i + 1
    /\ UNCHANGED <<pc, graph, location, cost, sliceCost, t, stuck, failure, extracts>>

\* one iteration of the for loop (i < limit), for the Change ch that
\* planChange() returned, whose move is undone: delta > 0 and the draw rejected
\* it
MoveRevertedWithin(limit, ch) ==
    /\ pc = "batch"
    /\ i < limit
    /\ LET after == DoChange(m_layout, ch)
           delta == NewCost(m_layout, after, cost, ch) - cost
       IN /\ delta > 0 /\ CanReject(delta, t)
          /\ m_layout' = UndoChange(after, ch)
    /\ i' = i + 1
    /\ UNCHANGED <<pc, graph, location, cost, sliceCost, t, stuck, failure, extracts>>

MoveReverted(ch) == MoveRevertedWithin(BatchSize(m_layout), ch)

\* the end of a batch (the for loop has reached limit): the stuck counter is
\* updated; while (stuck < 5) starts the next batch, otherwise the inner loop is
\* left
BatchEndsAt(limit) ==
    /\ pc = "batch"
    /\ i = limit
    /\ stuck' = StuckAfterBatch(stuck, cost, sliceCost)
    /\ IF stuck' < StuckLimit
       THEN /\ sliceCost' = cost
            /\ i' = 0
            /\ pc' = "batch"
       ELSE /\ pc' = "cool"
            /\ UNCHANGED <<sliceCost, i>>
    /\ UNCHANGED <<graph, location, m_layout, cost, t, failure, extracts>>

BatchEnds == BatchEndsAt(BatchSize(m_layout))

\* t *= 0.5, then while (t > 0.05): the next temperature starts with stuck = 0,
\* or optimize() returns
Cools ==
    /\ pc = "cool"
    /\ t' = CoolT(t)
    /\ IF t' > MinT
       THEN /\ stuck' = 0
            /\ sliceCost' = cost
            /\ i' = 0
            /\ pc' = "batch"
       ELSE /\ pc' = "optimized"
            /\ UNCHANGED <<stuck, sliceCost, i>>
    /\ UNCHANGED <<graph, location, m_layout, cost, failure, extracts>>

\* ---------------------------------------------------------------- extract()
\* the slots in the order of the two nested loops: row by row, slot by slot
RECURSIVE SlotOrderFrom(_, _)
SlotOrderFrom(L, j) ==
    IF j > Len(L.rows) THEN <<>>
    ELSE [s \in 1..Len(L.rows[j].cells) |-> <<j, s>>] \o SlotOrderFrom(L, j + 1)

SlotOrder(L) == SlotOrderFrom(L, 1)

\* int x; x += k * minEdgeLength: the sum is a double and is truncated to int
\* (minEdgeLength mel is in halves; no operand is negative)
AddSpacing(x, k, mel) == (2 * x + k * mel) \div 2

\* the first loop of extract() from place n of the slot order on, with the
\* running maxima (sums of int fields, so whole numbers).  maxHeight is taken
\* before rect.y is moved, maxWidth after rect.x is moved.
RECURSIVE SpaceCells(_, _, _, _, _)
SpaceCells(L, order, n, cells, maxima) ==
    IF n > Len(order) THEN [cells |-> cells, maxWidth |-> maxima[1], maxHeight |-> maxima[2]]
    ELSE LET j == order[n][1]
             s == order[n][2]
             c == L.rows[j].cells[s]
             x1 == AddSpacing(cells[c].rect.x, s - 1, L.minEdgeLength)
             maxHeight == Max(maxima[2], cells[c].rect.y + cells[c].rect.h)
             y1 == AddSpacing(cells[c].rect.y, j - 1, L.minEdgeLength)
             maxWidth == Max(maxima[1], x1 + cells[c].rect.w)
         IN SpaceCells(L, order, n + 1,
                       [cells EXCEPT ![c].rect.x = x1, ![c].rect.y = y1],
                       <<maxWidth, maxHeight>>)

\* the location computed from the stash instead of the rect
NodeLocationFromStash(cell, maxWidth, maxHeight) ==
    << 2 * (MIN_WIDTH \div 2) + 2 * cell.stash.x - maxWidth,
       2 * (MIN_HEIGHT \div 2) + 2 * cell.stash.y - maxHeight >>

\* the location (in halves) extract() writes for a cell: MIN_WIDTH / 2 and
\* MIN_HEIGHT / 2 are int divisions, maxWidth / 2 and maxHeight / 2 are not, so
\* twice the location is 2 * (MIN / 2) + 2 * rect - max
NodeLocation(cell, maxWidth, maxHeight) ==
    << 2 * (MIN_WIDTH \div 2) + 2 * cell.rect.x - maxWidth,
       2 * (MIN_HEIGHT \div 2) + 2 * cell.rect.y - maxHeight >>

\* the second loop writing to the node numbered like the place in all instead
\* of the node the cell holds
RECURSIVE SetLocationsByPosition(_, _, _, _)
SetLocationsByPosition(spaced, all, n, loc) ==
    IF n > Len(all) THEN loc
    ELSE LET cell == spaced.cells[all[n]]
         IN SetLocationsByPosition(spaced, all, n + 1,
               [loc EXCEPT ![n] =
                   NodeLocation(cell, spaced.maxWidth, spaced.maxHeight)])

\* the second loop of extract(): setLocation on the node of every cell of all, in
\* the order of all
RECURSIVE SetLocations(_, _, _, _)
SetLocations(spaced, all, n, loc) ==
    IF n > Len(all) THEN loc
    ELSE LET cell == spaced.cells[all[n]]
         IN SetLocations(spaced, all, n + 1,
               [loc EXCEPT ![cell.node] =
                   NodeLocation(cell, spaced.maxWidth, spaced.maxHeight)])

\* extract(), called after optimize() has returned (and possibly again)
Extract ==
    /\ pc \in { "optimized", "extracted" }
    /\ extracts < MaxExtract
    /\ LET spaced == SpaceCells(m_layout, SlotOrder(m_layout), 1, m_layout.cells, <<0, 0>>)
       IN /\ m_layout' = [m_layout EXCEPT !.cells = spaced.cells]
          /\ location' = SetLocations(spaced, m_layout.all, 1, location)
    /\ extracts' = extracts + 1
    /\ pc' = "extracted"
    /\ UNCHANGED <<graph, cost, sliceCost, t, stuck, i, failure>>

Next ==
    \/ InitializeReturns
    \/ InitializeAborts
    \/ OptimizeReturnsEarly
    \/ OptimizeStarts
    \/ \E ch \in PlanChange(m_layout) : MoveAccepted(ch)
    \/ \E ch \in PlanChange(m_layout) : MoveReverted(ch)
    \/ BatchEnds
    \/ Cools
    \/ Extract

Spec == Init /\ [][Next]_vars

\* one proposed move of optimize(), kept or undone
Moves == \E ch \in PlanChange(m_layout) : MoveAccepted(ch) \/ MoveReverted(ch)

\* optimize() runs single-threaded to completion: each step of its loops that
\* can be taken is taken
FairSpec == Spec /\ WF_vars(Moves) /\ WF_vars(BatchEnds) /\ WF_vars(Cools)

\* ------------------------------------------------------- initialize() alone
\* Arguments of initialize() for the lattice build taken alone: aspect ratios
\* from 1/9 to 9 and minEdgeLength 0.0, 0.5, 10.0 and 100.0 (in halves)
BuildArgs == { [aspectRatio |-> ar, minEdgeLength |-> mel] :
                  ar \in { <<1, 9>>, <<2, 5>>, <<1, 1>>, <<5, 2>>, <<9, 1>> },
                  mel \in { 0, 1, 20, 200 } }

\* the steps of initialize() for the arguments of BuildArgs
NextBuild ==
    \/ InitializeReturnsFor(BuildArgs)
    \/ InitializeAbortsFor(BuildArgs)

BuildSpec == Init /\ [][NextBuild]_vars

\* --------------------------------------------------------- a wider lattice
\* Arguments of initialize() that give two nodes of the default size a lattice
\* of 2 rows x 2 columns: aspectRatio 2.5, minEdgeLength 10.0
WideArgs == { [aspectRatio |-> <<5, 2>>, minEdgeLength |-> 20] }

\* Graphs for the wider lattice: no node, one node, and two nodes joined by an
\* edge, which leave 4, 3 and 2 Cells of the lattice without a node
WideGraphs == { [nodes |-> <<>>, edges |-> <<>>],
                [nodes |-> <<DefaultNode>>, edges |-> <<>>],
                [nodes |-> <<DefaultNode, DefaultNode>>, edges |-> << <<1, 2>> >>] }

InitWide ==
    /\ pc = "constructed"
    /\ graph \in WideGraphs
    /\ location = [k \in 1..Len(graph.nodes) |-> <<0, 0>>]
    /\ m_layout = NoLayout
    /\ cost = 0
    /\ sliceCost = 0
    /\ t = 0
    /\ stuck = 0
    /\ i = 0
    /\ failure = "none"
    /\ extracts = 0

\* the number of temperature levels followed on the wider lattice
MaxWideLevels == 2

\* t *= 0.5 at the end of one of the first levels - 1 temperature levels
CoolsWithin(levels) ==
    /\ t * (2 ^ (levels - 1)) > InitialT
    /\ Cools

\* the program with initialize() called with the arguments of WideArgs, for the
\* first MaxWideLevels temperature levels of optimize()
NextWide ==
    \/ InitializeReturnsFor(WideArgs)
    \/ InitializeAbortsFor(WideArgs)
    \/ OptimizeReturnsEarly
    \/ OptimizeStarts
    \/ \E ch \in PlanChange(m_layout) : MoveAccepted(ch)
    \/ \E ch \in PlanChange(m_layout) : MoveReverted(ch)
    \/ BatchEnds
    \/ CoolsWithin(MaxWideLevels)
    \/ Extract

WideSpec == InitWide /\ [][NextWide]_vars

\* ------------------------------------------------- batches followed in full
\* Graphs whose batches are followed to the bound of the for loop: one node,
\* two nodes joined by an edge on a lattice of two Cells, and two nodes without
\* an edge on a lattice of three Cells. On these graphs every proposed move has
\* delta = 0, so that none is undone.
FullBatchGraphs == { [nodes |-> <<SmallNode>>, edges |-> <<>>],
                     [nodes |-> <<SmallNode, SmallNode>>, edges |-> << <<1, 2>> >>],
                     [nodes |-> <<DefaultNode, DefaultNode>>, edges |-> <<>>] }

InitFullBatch ==
    /\ pc = "constructed"
    /\ graph \in FullBatchGraphs
    /\ location = [k \in 1..Len(graph.nodes) |-> <<0, 0>>]
    /\ m_layout = NoLayout
    /\ cost = 0
    /\ sliceCost = 0
    /\ t = 0
    /\ stuck = 0
    /\ i = 0
    /\ failure = "none"
    /\ extracts = 0

\* the program with every batch run to i = m_layout->all.size() * 100
NextFullBatch ==
    \/ InitializeReturns
    \/ InitializeAborts
    \/ OptimizeReturnsEarly
    \/ OptimizeStarts
    \/ \E ch \in PlanChange(m_layout) :
          MoveAcceptedWithin(ProposalsPerBatch(m_layout), ch)
    \/ BatchEndsAt(ProposalsPerBatch(m_layout))
    \/ Cools
    \/ Extract

FullBatchSpec == InitFullBatch /\ [][NextFullBatch]_vars

\* ================================================================== claims
\* the lattice has been built and initialize() returned
Built == pc \in { "initialized", "batch", "cool", "optimized", "extracted" }

\* the (row, slot) place that holds cell c
SlotOf(L, c) == CHOOSE p \in Slots(L) : L.rows[p[1]].cells[p[2]] = c

\* the layout is the one initialize() built: no move has changed a slot
Untouched(L) ==
    \A p \in Slots(L) : L.rows[p[1]].cells[p[2]] = (p[1] - 1) * Len(L.rows[1].cells) + p[2]

\* ---- C1
\* C1: for a graph with at least 2 nodes and no edges, optimize() terminates:
\* once it has entered the cooling loop it eventually returns.
C1_TerminatesWithoutEdges ==
    (pc = "batch" /\ graph.edges = <<>>) ~> (pc = "optimized")

\* ---- C2
\* gain >= -0.1 for gain = (cost - sliceCost) / sliceCost as IEEE doubles
GainAtLeastMinusTenth(c, slice) ==
    IF slice = 0 THEN c > 0 ELSE 10 * (c - slice) >= 0 - slice

\* C2: at the end of every batch the stuck counter is incremented by one exactly
\* when gain >= -0.1 and is reset to 0 otherwise.
C2_StuckFollowsGainRule ==
    [][ (pc = "batch" /\ i = BatchSize(m_layout))
          => stuck' = (IF GainAtLeastMinusTenth(cost, sliceCost) THEN stuck + 1 ELSE 0) ]_vars

\* ---- C3
\* the slots and every Cell's rect of layout b are those of layout a
SamePlacement(a, b) ==
    /\ b.rows = a.rows
    /\ \A c \in DOMAIN a.cells : b.cells[c].rect = a.cells[c].rect

\* C3: during optimize(), for every Change planChange() can return, doChange
\* followed by undoChange restores every slot and every Cell's rect; and every
\* iteration of the for loop either leaves two slots exchanged (the move was
\* kept) or leaves slots, rects and the running cost as they were before the
\* move (the move was undone).
C3_RoundTrip ==
    /\ [](pc = "batch" =>
            \A ch \in PlanChange(m_layout) :
               SamePlacement(m_layout, UndoChange(DoChange(m_layout, ch), ch)))
    /\ [][ (pc = "batch" /\ i' = i + 1)
             => \/ m_layout'.rows # m_layout.rows
                \/ SamePlacement(m_layout, m_layout') /\ cost' = cost ]_vars

\* a move has been undone: popRect left a Cell's rect equal to its stash
C3_Witness ==
    /\ pc = "batch"
    /\ i > 0
    /\ \E c \in DOMAIN m_layout.cells : m_layout.cells[c].stash = m_layout.cells[c].rect

\* ---- C4
\* C4: the number of rows and the number of slots of each row are the same
\* before and after every step that follows initialize().
C4_LatticeShapeFixed ==
    [][ Built =>
          /\ Len(m_layout'.rows) = Len(m_layout.rows)
          /\ \A j \in DOMAIN m_layout.rows :
                Len(m_layout'.rows[j].cells) = Len(m_layout.rows[j].cells)
          /\ Len(m_layout'.cells) = Len(m_layout.cells) ]_vars

\* moves have been kept and undone, and the slots are no longer as built
C4_Witness ==
    /\ pc = "batch"
    /\ ~Untouched(m_layout)
    /\ \E c \in DOMAIN m_layout.cells : m_layout.cells[c].stash = m_layout.cells[c].rect

\* ---- C5
\* C5: in every state after initialize(), the total cost and the running cost of
\* optimize() are >= 0.
C5_CostNonNegative ==
    Built => (CalculateCost(m_layout) >= 0 /\ cost >= 0)

\* a batch in which kept moves changed a positive cost
C5_Witness ==
    pc = "batch" /\ i > 0 /\ cost > 0 /\ cost # sliceCost /\ ~Untouched(m_layout)

\* ---- C6
\* the cells of all, by their place in the list
ActivePairs(L) == { pr \in (1..Len(L.all)) \X (1..Len(L.all)) : pr[1] # pr[2] }

\* C6: after initialize(), optimize() and one extract() (minEdgeLength > 0), the
\* locations written for two distinct active cells differ.
C6_DistinctLocations ==
    (pc = "extracted" /\ extracts = 1 /\ m_layout.minEdgeLength > 0) =>
        \A pr \in ActivePairs(m_layout) :
            location[m_layout.cells[m_layout.all[pr[1]]].node]
              # location[m_layout.cells[m_layout.all[pr[2]]].node]

\* one extract() after an optimize() that moved cells, with two active cells
C6_Witness ==
    /\ pc = "extracted"
    /\ extracts = 1
    /\ Len(m_layout.all) >= 2
    /\ ~Untouched(m_layout)

\* ---- C7
\* C7: the lattice initialize() builds has rows >= 1, cols >= 1 and
\* rows x cols >= number of nodes; every node is held by exactly one Cell and
\* the number of active cells equals the number of nodes.
C7_EveryNodeGetsACell ==
    pc = "initialized" =>
        /\ Len(m_layout.rows) >= 1
        /\ \A j \in DOMAIN m_layout.rows : Len(m_layout.rows[j].cells) >= 1
        /\ Len(m_layout.cells) >= Len(graph.nodes)
        /\ \A k \in 1..Len(graph.nodes) :
              Cardinality({ c \in DOMAIN m_layout.cells : m_layout.cells[c].node = k }) = 1
        /\ Len(m_layout.all) = Len(graph.nodes)

\* ---- C9
\* Scenario A's graph: two nodes joined by one edge
TwoNodesOneEdge == Len(graph.nodes) = 2 /\ graph.edges = << <<1, 2>> >>

\* C9: for two nodes joined by one edge, after initialize(), optimize() and
\* extract() the two locations differ and location(A) = -location(B).
C9_SymmetricLocations ==
    (pc = "extracted" /\ extracts = 1 /\ TwoNodesOneEdge) =>
        /\ location[1] # location[2]
        /\ location[1][1] = 0 - location[2][1]
        /\ location[1][2] = 0 - location[2][2]

\* ---- C10
\* lattice distance between the slots of cells a and b, in pitches and in length
SlotSteps(L, a, b) ==
    Abs(SlotOf(L, a)[1] - SlotOf(L, b)[1]) + Abs(SlotOf(L, a)[2] - SlotOf(L, b)[2])

SlotDistance(L, a, b) ==
    Abs(SlotOf(L, a)[1] - SlotOf(L, b)[1]) * MIN_HEIGHT
  + Abs(SlotOf(L, a)[2] - SlotOf(L, b)[2]) * MIN_WIDTH

\* C10 as claimed: for two nodes joined by one edge, when optimize() returns the
\* two active cells are in adjacent slots and the cost is one lattice pitch.
C10_AdjacentAtReturn ==
    (pc = "optimized" /\ TwoNodesOneEdge) =>
        /\ SlotSteps(m_layout, m_layout.all[1], m_layout.all[2]) = 1
        /\ cost \in { MIN_WIDTH, MIN_HEIGHT }

\* C10 as amended: when optimize() returns, the cost is the lattice distance
\* between the slots of the two active cells, which is at least one pitch; the
\* cells are adjacent and the cost is one pitch when the lattice has two cells.
C10_CostIsSlotDistanceAtReturn ==
    (pc = "optimized" /\ TwoNodesOneEdge) =>
        /\ cost = SlotDistance(m_layout, m_layout.all[1], m_layout.all[2])
        /\ cost >= MIN_WIDTH \/ cost >= MIN_HEIGHT
        /\ SlotSteps(m_layout, m_layout.all[1], m_layout.all[2]) >= 1
        /\ Len(m_layout.cells) = 2 =>
              /\ SlotSteps(m_layout, m_layout.all[1], m_layout.all[2]) = 1
              /\ cost \in { MIN_WIDTH, MIN_HEIGHT }

\* optimize() returned with the two cells moved to adjacent slots of a lattice
\* of more than two cells
C10_Witness ==
    /\ pc = "optimized"
    /\ TwoNodesOneEdge
    /\ Len(m_layout.all) = 2
    /\ Len(m_layout.cells) > 2
    /\ ~Untouched(m_layout)
    /\ SlotSteps(m_layout, m_layout.all[1], m_layout.all[2]) = 1

\* ---- C11
\* the node initialize() gave to Cell c of a lattice built for n nodes: the
\* build loop hands out nodes.back() while nodes remain
NodeAtBuild(n, c) == IF c <= n THEN n + 1 - c ELSE 0

\* C11: after initialize() and any sequence of moves, every node is held by at
\* most one Cell, every Cell holds the node (or none) it was given at build
\* time, and no step changes the node of a Cell.
C11_NodeIdentityFixed ==
    /\ [](Built =>
            /\ \A k \in 1..Len(graph.nodes) :
                  Cardinality({ c \in DOMAIN m_layout.cells : m_layout.cells[c].node = k }) <= 1
            /\ \A c \in DOMAIN m_layout.cells :
                  m_layout.cells[c].node = NodeAtBuild(Len(graph.nodes), c))
    /\ [][ Built => \A c \in DOMAIN m_layout.cells :
                       m_layout'.cells[c].node = m_layout.cells[c].node ]_vars

\* a later batch of optimize(), after kept moves have taken a Cell that holds a
\* node out of the slot it was built in
C11_Witness ==
    /\ pc = "batch"
    /\ stuck >= 1
    /\ \E p \in Slots(m_layout) :
          LET c == m_layout.rows[p[1]].cells[p[2]]
          IN /\ m_layout.cells[c].node # 0
             /\ c # (p[1] - 1) * Len(m_layout.rows[1].cells) + p[2]

\* ---- C12
\* how many entries of the list connections are Cell c
Entries(connections, c) ==
    Cardinality({ k \in DOMAIN connections : connections[k] = c })

\* how many input edges go from the node of Cell c0 to the node of Cell c1
EdgesBetween(L, c0, c1) ==
    Cardinality({ k \in DOMAIN graph.edges :
                    /\ L.cells[c0].node # 0
                    /\ L.cells[c1].node # 0
                    /\ graph.edges[k][1] = L.cells[c0].node
                    /\ graph.edges[k][2] = L.cells[c1].node })

\* C12: after initialize() has returned, for every two Cells c0 and c1 the out
\* list of c0 holds c1, and the in list of c1 holds c0, once per input edge from
\* the node of c0 to the node of c1 (and not otherwise); and no step of
\* optimize() or extract() changes an in or out list.
C12_AdjacencyFixed ==
    /\ [](Built =>
            \A c0 \in DOMAIN m_layout.cells : \A c1 \in DOMAIN m_layout.cells :
               /\ Entries(m_layout.cells[c0].out, c1) = EdgesBetween(m_layout, c0, c1)
               /\ Entries(m_layout.cells[c1].in, c0) = EdgesBetween(m_layout, c0, c1))
    /\ [][ Built => \A c \in DOMAIN m_layout.cells :
                       /\ m_layout'.cells[c].in = m_layout.cells[c].in
                       /\ m_layout'.cells[c].out = m_layout.cells[c].out ]_vars

\* extract() has run after an optimize() that moved cells, for a graph whose
\* edges include a self-loop and both directions between two nodes
C12_Witness ==
    /\ pc = "extracted"
    /\ Len(graph.edges) = 3
    /\ ~Untouched(m_layout)
    /\ \E c \in DOMAIN m_layout.cells :
          Len(m_layout.cells[c].out) = 2 /\ Len(m_layout.cells[c].in) = 2

\* ---- C13
\* no in or out list holds a null entry (0)
NoNullEntry(L) ==
    \A c \in DOMAIN L.cells :
       /\ \A k \in DOMAIN L.cells[c].out : L.cells[c].out[k] # 0
       /\ \A k \in DOMAIN L.cells[c].in : L.cells[c].in[k] # 0

\* C13: when an edge names a node for which initialize() recorded no Cell,
\* initialize() does not return (the edge is not skipped), it ends with the
\* explicit failure of the assert, and no adjacency entry was added for that edge.
C13_FailsExplicitly ==
    /\ pc = "initialized" =>
          \A k \in DOMAIN graph.edges : EdgeResolves(m_layout.cells, graph.edges[k])
    /\ (pc = "aborted" /\ failure # "undefined conversion") =>
          /\ failure = "assert"
          /\ NoNullEntry(m_layout)

\* ---- C14
\* C14: with fewer than 2 active cells, the step optimize() takes is its return,
\* which changes neither a slot nor a rect nor any other state; in every later
\* state up to extract() no move has been applied: every slot holds the Cell it
\* was built with, no Cell has stashed a rect and the loop index is 0.
C14_EarlyReturn ==
    /\ [][ (pc = "initialized" /\ Len(m_layout.all) < 2)
             => /\ pc' = "optimized"
                /\ m_layout' = m_layout
                /\ <<cost, sliceCost, t, stuck, i, location>>'
                     = <<cost, sliceCost, t, stuck, i, location>> ]_vars
    /\ []((Built /\ Len(m_layout.all) < 2) =>
            /\ pc # "batch" /\ pc # "cool"
            /\ Untouched(m_layout)
            /\ \A c \in DOMAIN m_layout.cells : m_layout.cells[c].stash = Rect0
            /\ i = 0 /\ t = 0)

\* optimize() has returned for a single node in a lattice of two or more cells,
\* where planChange() could have proposed a move
C14_Witness ==
    /\ pc = "optimized"
    /\ Len(m_layout.all) = 1
    /\ Len(m_layout.cells) >= 2

\* ---- C15
\* C15: for an empty node list (total footprint area 0) initialize() neither
\* returns a lattice nor reaches the conversion of the undefined width: it ends
\* with an explicit error.
C15_ZeroAreaFailsExplicitly ==
    graph.nodes = <<>> =>
        /\ pc \in { "constructed", "aborted" }
        /\ failure # "undefined conversion"

\* ---- C16
\* the number of setLocation calls one extract() makes on node k: one for
\* every entry of all whose Cell holds k
LocationWrites(L, k) ==
    Cardinality({ n \in DOMAIN L.all : L.cells[L.all[n]].node = k })

\* node k is held by a Cell that holds a node
HeldByActiveCell(L, k) == \E c \in DOMAIN L.cells : L.cells[c].node = k

\* C16: a step that is not an extract() call (a step of initialize() or
\* optimize()) leaves every node's location unchanged; an extract() call writes
\* the location of every node held by an active cell exactly once and leaves
\* the location of every other node as it was.
C16_OnlyExtractWritesLocations ==
    /\ [][ extracts' = extracts => location' = location ]_vars
    /\ [][ extracts' # extracts =>
             \A k \in DOMAIN location :
                IF HeldByActiveCell(m_layout, k)
                THEN LocationWrites(m_layout, k) = 1
                ELSE LocationWrites(m_layout, k) = 0 /\ location'[k] = location[k] ]_vars

\* one extract() has written the location of a held node while another node of
\* the graph is held by no Cell
C16_Witness ==
    /\ pc = "extracted"
    /\ extracts = 1
    /\ \E k \in DOMAIN location : ~HeldByActiveCell(m_layout, k)
    /\ \E k \in DOMAIN location : HeldByActiveCell(m_layout, k) /\ location[k] # <<0, 0>>

\* ---- C17
\* C17: for a graph that has nodes, the first extract() after optimize() leaves
\* the cell in row j, slot s
\* (counted from 0) with rect.x = s * MIN_WIDTH + s * minEdgeLength and
\* rect.y = j * MIN_HEIGHT + j * minEdgeLength, and writes for every active cell
\* the location (MIN_WIDTH / 2 + rect.x - maxWidth / 2,
\* MIN_HEIGHT / 2 + rect.y - maxHeight / 2), with MIN_WIDTH / 2 and
\* MIN_HEIGHT / 2 as the program computes them and maxWidth, maxHeight the
\* maxima of that call.  (Coordinates are compared in halves.)
C17_ExtractedRectsAndLocations ==
    [][ (pc = "optimized" /\ extracts' = 1 /\ graph.nodes # <<>>) =>
          LET spaced == SpaceCells(m_layout, SlotOrder(m_layout), 1, m_layout.cells, <<0, 0>>)
          IN /\ \A p \in Slots(m_layout) :
                   LET c == m_layout.rows[p[1]].cells[p[2]]
                   IN /\ 2 * m_layout'.cells[c].rect.x
                           = 2 * (p[2] - 1) * MIN_WIDTH + (p[2] - 1) * m_layout.minEdgeLength
                      /\ 2 * m_layout'.cells[c].rect.y
                           = 2 * (p[1] - 1) * MIN_HEIGHT + (p[1] - 1) * m_layout.minEdgeLength
             /\ \A n \in DOMAIN m_layout.all :
                   LET cell == m_layout'.cells[m_layout.all[n]]
                   IN location'[cell.node]
                        = << 2 * (MIN_WIDTH \div 2) + 2 * cell.rect.x - spaced.maxWidth,
                             2 * (MIN_HEIGHT \div 2) + 2 * cell.rect.y - spaced.maxHeight >> ]_vars

\* ---- C18
\* C18: for a graph that has nodes, the maxima the first extract() computes are
\* taken after the spacing has been added to both coordinates:
\* maxWidth = cols * MIN_WIDTH + (cols - 1) * minEdgeLength and
\* maxHeight = rows * MIN_HEIGHT + (rows - 1) * minEdgeLength.  (Compared in
\* halves.)
C18_MaximaAfterSpacing ==
    [][ (pc = "optimized" /\ extracts' = 1 /\ graph.nodes # <<>>) =>
          LET spaced == SpaceCells(m_layout, SlotOrder(m_layout), 1, m_layout.cells, <<0, 0>>)
              rows == Len(m_layout.rows)
              cols == Len(m_layout.rows[1].cells)
          IN /\ 2 * spaced.maxWidth
                  = 2 * cols * MIN_WIDTH + (cols - 1) * m_layout.minEdgeLength
             /\ 2 * spaced.maxHeight
                  = 2 * rows * MIN_HEIGHT + (rows - 1) * m_layout.minEdgeLength ]_vars

\* ---- C19
\* the step kept the move ch: the two slots are exchanged, the layout is the
\* one doChange leaves and the running cost is newCost
StepKeeps(ch) ==
    /\ m_layout'.rows[ch.sourceRow].cells[ch.sourceIndex] = ch.targetCell
    /\ m_layout'.rows[ch.targetRow].cells[ch.targetIndex] = ch.sourceCell
    /\ LET after == DoChange(m_layout, ch)
       IN /\ m_layout' = after
          /\ cost' = NewCost(m_layout, after, cost, ch)

\* the step undid the move ch, whose delta was positive: the layout is the one
\* undoChange leaves after doChange and the running cost is unchanged
StepUndoes(ch) ==
    /\ m_layout'.rows = m_layout.rows
    /\ cost' = cost
    /\ m_layout'.cells[ch.sourceCell].stash = m_layout.cells[ch.sourceCell].rect
    /\ m_layout'.cells[ch.targetCell].stash = m_layout.cells[ch.targetCell].rect
    /\ LET after == DoChange(m_layout, ch)
       IN /\ NewCost(m_layout, after, cost, ch) - cost > 0
          /\ m_layout' = UndoChange(after, ch)

\* C19: every iteration of the for loop of optimize() has one of two outcomes
\* for the Change it proposed: the move is kept and cost becomes newCost, or
\* the move had delta > 0 and is undone by undoChange with cost unchanged; a
\* move with delta <= 0 is never undone.
C19_AcceptOrRevert ==
    [][ (pc = "batch" /\ i' = i + 1)
          => \E ch \in PlanChange(m_layout) : StepKeeps(ch) \/ StepUndoes(ch) ]_vars

\* a later batch in which a move that raised the cost (delta > 0) was kept
C19_Witness ==
    /\ pc = "batch"
    /\ stuck >= 1
    /\ i > 0
    /\ cost > sliceCost

\* ---- C20
\* the temperatures of the levels optimize() runs at: 200 halved 0 to 11 times
TemperatureLevels == { InitialT \div (2 ^ k) : k \in 0..11 }

\* C20: the temperature is set to 200 when optimize() starts and afterwards
\* changes only by being halved, and only after an inner loop that ended with
\* the stuck counter at 5; the counter is 0 when a temperature level starts and
\* grows by at most one per batch (so at least 5 batches run per level); the
\* loops run only while t > 0.05, at one of 12 levels, and optimize() returns
\* from the loops with t = 200 / 2^12 <= 0.05.
C20_TemperatureSchedule ==
    /\ [](pc \in { "batch", "cool" } => (t \in TemperatureLevels /\ t > MinT))
    /\ []((pc = "optimized" /\ Len(m_layout.all) >= 2) =>
            (t <= MinT /\ 2 * t \in TemperatureLevels /\ t * (2 ^ 12) = InitialT))
    /\ [][ t' # t =>
             \/ pc = "initialized" /\ t' = InitialT /\ stuck' = 0
             \/ /\ pc = "cool" /\ stuck = StuckLimit /\ 2 * t' = t
                /\ pc' = "batch" => stuck' = 0 ]_vars
    /\ [][ stuck' # stuck =>
             \/ stuck' = 0
             \/ pc = "batch" /\ i = BatchSize(m_layout) /\ stuck' = stuck + 1 ]_vars
    /\ [][ (pc = "batch" /\ pc' = "cool") => stuck' = StuckLimit ]_vars

\* optimize() has returned from its loops after the twelfth level
C20_Witness ==
    /\ pc = "optimized"
    /\ Len(m_layout.all) >= 2
    /\ t > 0
    /\ t <= MinT
    /\ stuck = StuckLimit

\* ---- C21
\* the Cells that hold a node
ActiveCells(L) == { c \in DOMAIN L.cells : L.cells[c].node # 0 }

\* the step applies the Change ch once: doChange(ch) alone, or doChange(ch)
\* followed by one undoChange(ch)
AppliesOnce(ch) ==
    \/ m_layout' = DoChange(m_layout, ch)
    \/ m_layout' = UndoChange(DoChange(m_layout, ch), ch)

CellOfNode(L, n) == CHOOSE c \in DOMAIN L.cells : L.cells[c].node = n

\* the Manhattan distance of the positions of the Cells that hold the two
\* endpoints of a directed edge
EdgeLength(L, edge) ==
    LET a == L.cells[CellOfNode(L, edge[1])].rect
        b == L.cells[CellOfNode(L, edge[2])].rect
    IN Abs(a.x - b.x) + Abs(a.y - b.y)

\* C22: once initialize() has returned, calculateCost() is the sum, over the
\* edges of the graph taken once each, of the Manhattan distance between the
\* current positions of the Cells holding the source and the target of the edge.
C22_CostCountsEveryEdgeOnce ==
    Built =>
        CalculateCost(m_layout) =
            SumSeq([k \in 1..Len(graph.edges) |-> EdgeLength(m_layout, graph.edges[k])])

\* a graph with a self-loop and a pair of opposite edges, after moves have
\* changed the slots, at a positive cost
C22_Witness ==
    /\ Built
    /\ Len(graph.edges) = 3
    /\ ~Untouched(m_layout)
    /\ CalculateCost(m_layout) > 0

\* ---- C23
\* the Cells that occur in the in list or in the out list of Cell c
Neighbours(L, c) ==
    { L.cells[c].in[k] : k \in DOMAIN L.cells[c].in }
       \cup { L.cells[c].out[k] : k \in DOMAIN L.cells[c].out }

\* C23 as stated: the compound cost of a Cell is the sum of its distances to
\* the Cells of the union of its in and out lists, each such Cell taken once.
C23_CompoundCostOverUnion ==
    Built =>
        \A c \in DOMAIN m_layout.cells :
           GetCompoundCost(m_layout.cells, c) =
               SumSeq([n \in 1..Len(m_layout.cells) |->
                          IF n \in Neighbours(m_layout, c)
                          THEN Distance(m_layout.cells[c], m_layout.cells[n]) ELSE 0])

\* C23 amended: the compound cost of a Cell is the sum of its distances to its
\* neighbours, each taken as many times as it occurs in the in list and in the
\* out list together, so that a neighbour joined by a pair of opposite edges
\* counts twice.
C23_CompoundCostOverBothLists ==
    Built =>
        \A c \in DOMAIN m_layout.cells :
           GetCompoundCost(m_layout.cells, c) =
               SumSeq([n \in 1..Len(m_layout.cells) |->
                          (Entries(m_layout.cells[c].in, n) + Entries(m_layout.cells[c].out, n))
                             * Distance(m_layout.cells[c], m_layout.cells[n])])

\* a Cell with a self-loop and a neighbour that is in both of its lists, at a
\* positive compound cost after a move
C23_Witness ==
    /\ Built
    /\ ~Untouched(m_layout)
    /\ \E c \in DOMAIN m_layout.cells : \E n \in DOMAIN m_layout.cells :
          /\ n # c
          /\ Entries(m_layout.cells[c].in, n) = 1
          /\ Entries(m_layout.cells[c].out, n) = 1
          /\ Entries(m_layout.cells[c].in, c) = 1
          /\ Entries(m_layout.cells[c].out, c) = 1
          /\ GetCompoundCost(m_layout.cells, c) > 0

\* ---- C24
\* C24: when initialize() returns for a list of n nodes, the Cell in row j,
\* slot s (the k-th built, k = (j - 1) * cols + (s - 1), counted from 0) holds
\* the node at list position n - 1 - k when k < n and no node otherwise, and the
\* active list is the Cells with k < n in build order.
C24_NodesAssignedRowMajorFromEnd ==
    pc = "initialized" =>
       LET n == Len(graph.nodes)
           cols == Len(m_layout.rows[1].cells)
           built(k) == m_layout.rows[(k \div cols) + 1].cells[(k % cols) + 1]
           position(k) == (n - 1 - k) + 1
       IN /\ \A k \in 0..(Len(m_layout.cells) - 1) :
                m_layout.cells[built(k)].node = IF k < n THEN position(k) ELSE 0
          /\ Len(m_layout.all) = Cardinality({ k \in 0..(Len(m_layout.cells) - 1) : k < n })
          /\ \A q \in DOMAIN m_layout.all : m_layout.all[q] = built(q - 1)

\* initialize() has returned for two different nodes with a lattice of several
\* rows and columns that has more Cells than nodes
C24_Witness ==
    /\ pc = "initialized"
    /\ Len(graph.nodes) = 2
    /\ graph.nodes[1] # graph.nodes[2]
    /\ Len(m_layout.rows) > 1
    /\ Len(m_layout.rows[1].cells) > 1

\* ---- C25
\* C25: wherever optimize() calls planChange(), it returns a Change, and every
\* Change it can return names two different Cells, each of them the Cell that
\* the recorded row holds at the recorded slot at the time of the call.
C25_ChangeNamesTwoStoredCells ==
    pc = "batch" =>
        /\ PlanChange(m_layout) # {}
        /\ \A ch \in PlanChange(m_layout) :
              /\ ch.sourceCell # ch.targetCell
              /\ ch.sourceCell = m_layout.rows[ch.sourceRow].cells[ch.sourceIndex]
              /\ ch.targetCell = m_layout.rows[ch.targetRow].cells[ch.targetIndex]

\* after earlier moves, planChange() can return a Change whose source holds no
\* node and one whose two Cells both hold a node
C25_Witness ==
    /\ pc = "batch"
    /\ i > 0
    /\ ~Untouched(m_layout)
    /\ \E ch \in PlanChange(m_layout) :
          m_layout.cells[ch.sourceCell].node = 0 /\ m_layout.cells[ch.targetCell].node # 0
    /\ \E ch \in PlanChange(m_layout) :
          m_layout.cells[ch.sourceCell].node # 0 /\ m_layout.cells[ch.targetCell].node # 0

\* ---- C26
\* initialize() has returned and extract() has not yet run
BeforeExtract == pc \in { "initialized", "batch", "cool", "optimized" }

\* C26: after initialize() and after every completed move, kept or undone, the
\* Cell in row j, slot s (counted from 0) has rect.x = s * MIN_WIDTH,
\* rect.y = j * MIN_HEIGHT, rect.w = MIN_WIDTH and rect.h = MIN_HEIGHT, and no
\* two Cells have the same position.
C26_RectIsSlotPosition ==
    BeforeExtract =>
        /\ \A p \in Slots(m_layout) :
              m_layout.cells[m_layout.rows[p[1]].cells[p[2]]].rect =
                 [x |-> (p[2] - 1) * MIN_WIDTH, y |-> (p[1] - 1) * MIN_HEIGHT,
                  w |-> MIN_WIDTH, h |-> MIN_HEIGHT]
        /\ \A c1, c2 \in DOMAIN m_layout.cells :
              c1 # c2 =>
                 <<m_layout.cells[c1].rect.x, m_layout.cells[c1].rect.y>> #
                 <<m_layout.cells[c2].rect.x, m_layout.cells[c2].rect.y>>

\* in a lattice of several rows a move has been undone (popRect left some
\* Cell's rect equal to its stash) after an earlier move was kept
C26_Witness ==
    /\ pc = "batch"
    /\ Len(m_layout.rows) > 1
    /\ ~Untouched(m_layout)
    /\ \E c \in DOMAIN m_layout.cells : m_layout.cells[c].stash = m_layout.cells[c].rect

\* ---- C27
\* Cell c holds no node
Empty(L, c) == L.cells[c].node = 0

\* C27: in every reachable state a Cell that holds no node has empty in and out
\* lists, compound cost 0, and is not an entry of the in or out list of any
\* Cell; and every Change planChange() can return that names two Cells without
\* a node leaves the cost as it is (delta = 0).
C27_EmptyCellHasNoConnections ==
    /\ \A c \in DOMAIN m_layout.cells :
          Empty(m_layout, c) =>
             /\ m_layout.cells[c].in = <<>>
             /\ m_layout.cells[c].out = <<>>
             /\ GetCompoundCost(m_layout.cells, c) = 0
             /\ \A d \in DOMAIN m_layout.cells :
                   /\ Entries(m_layout.cells[d].in, c) = 0
                   /\ Entries(m_layout.cells[d].out, c) = 0
    /\ pc = "batch" =>
          \A ch \in PlanChange(m_layout) :
             Empty(m_layout, ch.sourceCell) /\ Empty(m_layout, ch.targetCell) =>
                NewCost(m_layout, DoChange(m_layout, ch), cost, ch) - cost = 0

\* during a batch, after moves, the layout has an edge of positive cost and
\* planChange() can return a Change of two Cells without a node
C27_Witness ==
    /\ pc = "batch"
    /\ i > 0
    /\ stuck >= 1
    /\ ~Untouched(m_layout)
    /\ cost > 0
    /\ \E ch \in PlanChange(m_layout) :
          Empty(m_layout, ch.sourceCell) /\ Empty(m_layout, ch.targetCell)

\* ---- C28
\* twice the Manhattan distance between the centres of two rects
CentreDistanceTwice(r1, r2) ==
    Abs((2 * r1.x + r1.w) - (2 * r2.x + r2.w)) + Abs((2 * r1.y + r1.h) - (2 * r2.y + r2.h))

\* C28: for any two Cells of the layout, distance is the Manhattan distance
\* between the centres of their current rects, it is symmetric, and it is 0
\* exactly when the two rects have the same position; before extract() it is
\* |i1 - i2| * MIN_WIDTH + |j1 - j2| * MIN_HEIGHT for Cells in row j1, slot i1 and
\* row j2, slot i2.
C28_DistanceIsManhattanOfCentres ==
    Built =>
        \A a, b \in DOMAIN m_layout.cells :
           LET ca == m_layout.cells[a]
               cb == m_layout.cells[b]
           IN /\ 2 * Distance(ca, cb) = CentreDistanceTwice(ca.rect, cb.rect)
              /\ Distance(ca, cb) = Distance(cb, ca)
              /\ Distance(ca, cb) = 0 <=> (ca.rect.x = cb.rect.x /\ ca.rect.y = cb.rect.y)
              /\ BeforeExtract => Distance(ca, cb) = SlotDistance(m_layout, a, b)

\* after moves, two Cells that hold nodes are in different rows and different
\* slots of a lattice, one pitch apart in each direction
C28_Witness ==
    /\ pc = "batch"
    /\ ~Untouched(m_layout)
    /\ \E a, b \in DOMAIN m_layout.cells :
          /\ m_layout.cells[a].node # 0
          /\ m_layout.cells[b].node # 0
          /\ SlotOf(m_layout, a)[1] # SlotOf(m_layout, b)[1]
          /\ SlotOf(m_layout, a)[2] # SlotOf(m_layout, b)[2]
          /\ Distance(m_layout.cells[a], m_layout.cells[b]) = MIN_WIDTH + MIN_HEIGHT

\* ---- C29
\* C29: from its first proposed move to its return, optimize() keeps the
\* running cost equal to calculateCost() of the current layout, after a move
\* that was kept and after one that was undone.
C29_RunningCostIsRecomputedCost ==
    (pc \in { "batch", "cool", "optimized" } /\ Len(m_layout.all) >= 2) =>
        cost = CalculateCost(m_layout)

\* during a batch the moves have changed the cost of a layout that has a
\* self-loop, a pair of opposite edges and a Cell without a node
C29_Witness ==
    /\ pc = "batch"
    /\ i > 0
    /\ Len(graph.edges) = 3
    /\ Len(m_layout.cells) > Len(m_layout.all)
    /\ cost # sliceCost
    /\ cost = CalculateCost(m_layout)

\* ---- C30
\* C30: after initialize() and after any sequence of doChange and undoChange,
\* the slots of the rows hold a permutation of the Cells initialize() built:
\* every Cell is in exactly one slot and there are as many slots as Cells.
C30_SlotsHoldPermutationOfCells ==
    Built =>
        /\ \A c \in DOMAIN m_layout.cells :
              Cardinality({ p \in Slots(m_layout) :
                              m_layout.rows[p[1]].cells[p[2]] = c }) = 1
        /\ \A p \in Slots(m_layout) :
              m_layout.rows[p[1]].cells[p[2]] \in DOMAIN m_layout.cells
        /\ Cardinality(Slots(m_layout)) = Len(m_layout.cells)

\* in a lattice with a Cell without a node, a move has been undone after
\* earlier moves were kept and no Cell is in the slot it was built for
C30_Witness ==
    /\ pc = "batch"
    /\ Len(m_layout.cells) > 2
    /\ \A p \in Slots(m_layout) :
          m_layout.rows[p[1]].cells[p[2]] # (p[1] - 1) * Len(m_layout.rows[1].cells) + p[2]
    /\ \E c \in DOMAIN m_layout.cells : m_layout.cells[c].stash = m_layout.cells[c].rect

\* ---- C31
\* C31: once initialize() has returned, the active list holds exactly the Cells
\* that hold a node, each once and in the order they were built, and no step of
\* optimize() or extract() changes it.
C31_ActiveListFixed ==
    /\ [](Built =>
            /\ { m_layout.all[k] : k \in DOMAIN m_layout.all } = ActiveCells(m_layout)
            /\ Len(m_layout.all) = Cardinality(ActiveCells(m_layout))
            /\ \A k \in DOMAIN m_layout.all : m_layout.all[k] = k)
    /\ [][ Built => m_layout'.all = m_layout.all ]_vars

\* extract() has run after an optimize() that left a Cell of the active list in
\* another slot than the one it was built for, on a lattice with a Cell without
\* a node
C31_Witness ==
    /\ pc = "extracted"
    /\ Len(m_layout.all) = 2
    /\ Len(m_layout.cells) > Len(m_layout.all)
    /\ \E k \in DOMAIN m_layout.all :
          SlotOf(m_layout, m_layout.all[k]) #
             << ((m_layout.all[k] - 1) \div Len(m_layout.rows[1].cells)) + 1,
                ((m_layout.all[k] - 1) % Len(m_layout.rows[1].cells)) + 1 >>

\* ---- C32
\* C32: for a graph that has nodes, minEdgeLength > 0 and a lattice of more than
\* one Cell, the second extract() adds s * minEdgeLength to rect.x and
\* j * minEdgeLength to rect.y of the Cell in row j, slot s (counted from 0), and
\* the node locations it writes are not all those of the first call.
\* (Coordinates are compared in halves.)
C32_SecondExtractDiffers ==
    [][ (/\ pc = "extracted" /\ extracts = 1 /\ extracts' = 2
         /\ graph.nodes # <<>>
         /\ m_layout.minEdgeLength > 0
         /\ Len(m_layout.cells) > 1) =>
          /\ \A p \in Slots(m_layout) :
                LET c == m_layout.rows[p[1]].cells[p[2]]
                IN /\ 2 * m_layout'.cells[c].rect.x
                        = 2 * m_layout.cells[c].rect.x + (p[2] - 1) * m_layout.minEdgeLength
                   /\ 2 * m_layout'.cells[c].rect.y
                        = 2 * m_layout.cells[c].rect.y + (p[1] - 1) * m_layout.minEdgeLength
          /\ location' # location ]_vars

====
